---- MODULE Spec2Model ----
(***************************************************************************)
(* Call Stack to PlantUML: the call-stack tree of src/src/extension.ts.    *)
(* The tree is a nested record [frame, children]; a node is referred to by *)
(* its path, the sequence of child indices that leads to it from the root  *)
(* (<<>> is the root itself).                                              *)
(***************************************************************************)
EXTENDS Integers, Sequences, FiniteSets, TLC

VARIABLES
  rootStackFrameNode,   \* the tree created by activate (extension.ts:458)
  activeDebugSession,   \* vscode.debug.activeDebugSession is set
  pc,                   \* per pending command: the await it is suspended at
  cmd,                  \* per pending command: "record" or "generate"
  lastStep,             \* the step taken last
  shown,                \* the messages the last step showed, in order
  callStack,            \* callStack, reversed, if the last step merged it
  nonOverlappingFrames, \* nonOverlappingFrames, if the last step merged
  clipboard,            \* the text the last step wrote to the clipboard, if any
  configMaxLength,      \* the setting call-stack-to-plantuml.maxLength
  wrapLine,             \* a line given to autoWordWrap
  wrapped,              \* what autoWordWrap returned for it
  leftFrame,            \* the first frame given to areFramesEqual
  rightFrame,           \* the second frame given to areFramesEqual
  framesEqual,          \* what areFramesEqual returned for them, if called
  longestCallStack,     \* history: the length of the longest call stack
                        \* merged since the last reset
  resetWhileSuspended   \* history: for each command, whether it was at an
                        \* await when the tree was last reset

vars == <<rootStackFrameNode, activeDebugSession, pc, cmd, lastStep, shown,
          callStack, nonOverlappingFrames, clipboard, configMaxLength,
          wrapLine, wrapped, leftFrame, rightFrame, framesEqual,
          longestCallStack, resetWhileSuspended>>

\* the line autoWordWrap is tried on, the setting, and the result
wrapVars == <<configMaxLength, wrapLine, wrapped>>

\* the frames areFramesEqual is tried on, and the result
frameVars == <<leftFrame, rightFrame, framesEqual>>

----------------------------------------------------------------------------
(* Bounds *)

\* longest stack trace a stackTrace response carries
MaxDepth == 3
\* most non-root nodes the tree may hold when commands run one at a time
MaxNodes == 3
\* most non-root nodes the tree may hold when the call stacks are not kept
MaxTreeNodes == 4
\* when commands overlap: most frames a stackTrace response carries, and most
\* non-root nodes the tree may hold
MaxAsyncNodes == 1
\* command invocations that may be pending at once
MaxCmds == 2
\* longest line autoWordWrap is tried on, in characters
MaxLineLength == 5
\* largest maxLength autoWordWrap is tried with
MaxWidth == 4
\* longest stack trace of the program of three functions
MaxWideDepth == 2

----------------------------------------------------------------------------
(* Frames *)

\* An optional property is a sequence: <<>> when the property is absent
\* (its value is undefined), <<v>> when it is present with the value v.
undefined == <<>>

Some(v) == <<v>>

\* the value null, where a path is expected: no path holds the index 0
null == <<0>>

Source(p) == Some([path |-> Some(p)])

StackFrame(n, s, l, c) == [name |-> n, source |-> s, line |-> l, column |-> c]

\* A string is the sequence of its characters.
Root == <<"R", "o", "o", "t">>

\* the frame of the synthetic root: { id: -1, name: "Root" }
RootFrame == StackFrame(Root, undefined, undefined, undefined)

\* function names
Names == {<<"A">>, <<"B">>}

\* the frames a debug adapter may report: two functions at one location
\* each, and a frame that carries a name only, the name being "Root"
StackFrames ==
  {StackFrame(n, Source("/src/app.ts"), Some(10), Some(5)) : n \in Names}
    \cup {StackFrame(Root, undefined, undefined, undefined)}

\* frame.source?.path
SourcePath(frame) ==
  IF frame.source = undefined THEN undefined ELSE frame.source[1].path

\* a comparison that takes an absent path of the first frame for a match
areFramesEqual_absentMatchesAny(frame1, frame2) ==
  /\ frame1.name = frame2.name
  /\ \/ SourcePath(frame1) = undefined
     \/ SourcePath(frame1) = SourcePath(frame2)
  /\ frame1.line = frame2.line
  /\ frame1.column = frame2.column

areFramesEqual(frame1, frame2) ==
  /\ frame1.name = frame2.name
  /\ SourcePath(frame1) = SourcePath(frame2)
  /\ frame1.line = frame2.line
  /\ frame1.column = frame2.column

----------------------------------------------------------------------------
(* Tree *)

\* new StackFrameNode(frame), and the literal { frame, children: [] }
StackFrameNode(frame) == [frame |-> frame, children |-> <<>>]

RECURSIVE NodeAt(_, _)
\* the node a path leads to
NodeAt(node, path) ==
  IF path = <<>> THEN node
  ELSE NodeAt(node.children[Head(path)], Tail(path))

RECURSIVE findNodeInChildren(_, _)
RECURSIVE FindInList(_, _, _)

\* a loop that looks at the children themselves before their subtrees
FindInList_childrenFirst(children, i, frame) ==
  LET direct == {j \in i..Len(children) :
                   areFramesEqual(children[j].frame, frame)}
  IN  IF direct # {} THEN <<CHOOSE j \in direct : \A k \in direct : j <= k>>
      ELSE IF i > Len(children) THEN null
      ELSE LET foundNode == findNodeInChildren(children[i], frame)
           IN  IF foundNode # null THEN <<i>> \o foundNode
               ELSE FindInList(children, i + 1, frame)

\* a loop that returns whatever the search of the first child gives
FindInList_firstChildOnly(children, i, frame) ==
  IF i > Len(children) THEN null
  ELSE LET foundNode == findNodeInChildren(children[i], frame)
       IN  IF foundNode # null THEN <<i>> \o foundNode ELSE null

\* the for loop of findNodeInChildren over node.children, from index i on
FindInList(children, i, frame) ==
  IF i > Len(children) THEN null
  ELSE LET foundNode == findNodeInChildren(children[i], frame)
       IN  IF foundNode # null THEN <<i>> \o foundNode
           ELSE FindInList(children, i + 1, frame)

\* the path, relative to node, of the node found, or null; node.frame is
\* always set, every node being made of the root's frame or of a frame of a
\* response
findNodeInChildren(node, frame) ==
  IF areFramesEqual(node.frame, frame) THEN <<>>
  ELSE FindInList(node.children, 1, frame)

RECURSIVE Push(_, _, _)

\* unshift in the place of push
Push_unshift(node, path, newNode) ==
  IF path = <<>> THEN [node EXCEPT !.children = <<newNode>> \o @]
  ELSE [node EXCEPT !.children[Head(path)] = Push(@, Tail(path), newNode)]

\* NodeAt(node, path).children.push(newNode)
Push(node, path, newNode) ==
  IF path = <<>> THEN [node EXCEPT !.children = Append(@, newNode)]
  ELSE [node EXCEPT !.children[Head(path)] = Push(@, Tail(path), newNode)]

----------------------------------------------------------------------------
(* recordCallStackInfo, from the stackTrace response on *)

\* an element of stackTraceResponse.stackFrames: an object, which has an
\* identity (ref, its index in the response) besides its value
Obj(i, frame) == [ref |-> i, val |-> frame]

\* callStack.push(...stackFrames); callStack.reverse()
Reversed(stackFrames) ==
  [i \in 1..Len(stackFrames) |->
     Obj(Len(stackFrames) + 1 - i, stackFrames[Len(stackFrames) + 1 - i])]

RECURSIVE IndexOfFrom(_, _, _)
IndexOfFrom(array, x, i) ==
  IF i > Len(array) THEN -1
  ELSE IF array[i] = x THEN i - 1
  ELSE IndexOfFrom(array, x, i + 1)

\* an indexOf that compares the frames' values
IndexOf_byValue(array, x) ==
  LET found == {i \in 1..Len(array) : areFramesEqual(array[i].val, x.val)}
  IN  IF found = {} THEN -1
      ELSE (CHOOSE i \in found : \A j \in found : i <= j) - 1

\* Array.prototype.indexOf: strict equality, which on objects is identity;
\* the index is 0-based
IndexOf(array, x) == IndexOfFrom(array, x, 1)

\* Array.prototype.slice(start)
Slice(array, start) == SubSeq(array, start + 1, Len(array))

RECURSIVE MatchLoop(_, _, _, _)
\* a loop that moves the cursor and leaves currentFrame at callStack[0]
MatchLoop_frameNotKept(root, stack, i, st) ==
  IF i > Len(stack) THEN st
  ELSE LET frame == stack[i]
           overlappedNode ==
             findNodeInChildren(NodeAt(root, st.currentNode), frame.val)
       IN  IF overlappedNode # null
           THEN MatchLoop(root, stack, i + 1,
                  [currentNode  |-> st.currentNode \o overlappedNode,
                   currentFrame |-> st.currentFrame,
                   hasOverlap   |-> TRUE])
           ELSE st

\* a loop that moves the cursor and never sets hasOverlap
MatchLoop_flagNotSet(root, stack, i, st) ==
  IF i > Len(stack) THEN st
  ELSE LET frame == stack[i]
           overlappedNode ==
             findNodeInChildren(NodeAt(root, st.currentNode), frame.val)
       IN  IF overlappedNode # null
           THEN MatchLoop(root, stack, i + 1,
                  [currentNode  |-> st.currentNode \o overlappedNode,
                   currentFrame |-> frame,
                   hasOverlap   |-> FALSE])
           ELSE st

\* the first for loop, from the i-th frame on; st holds the loop's variables
MatchLoop(root, stack, i, st) ==
  IF i > Len(stack) THEN st
  ELSE LET frame == stack[i]
           overlappedNode ==
             findNodeInChildren(NodeAt(root, st.currentNode), frame.val)
       IN  IF overlappedNode # null
           THEN MatchLoop(root, stack, i + 1,
                  [currentNode  |-> st.currentNode \o overlappedNode,
                   currentFrame |-> frame,
                   hasOverlap   |-> TRUE])
           ELSE st

\* the state of the variables when the first loop is left
Overlap(root, stack) ==
  MatchLoop(root, stack, 1,
    [currentNode  |-> <<>>,
     currentFrame |-> IF stack = <<>> THEN undefined ELSE stack[1],
     hasOverlap   |-> FALSE])

\* a slice that starts at the last overlapping frame
NonOverlapping_fromCurrent(stack, st) ==
  IF ~st.hasOverlap THEN stack
  ELSE Slice(stack, IndexOf(stack, st.currentFrame))

\* lines 188-194
NonOverlapping(stack, st) ==
  IF ~st.hasOverlap THEN stack
  ELSE Slice(stack, IndexOf(stack, st.currentFrame) + 1)

RECURSIVE AppendFrames(_, _, _)

\* a loop that runs once more than there are frames: its last node holds
\* the undefined it read past the end
AppendFrames_oneMore(root, currentNode, frames) ==
  IF frames = <<>>
  THEN Push(root, currentNode,
            StackFrameNode(StackFrame(undefined, undefined, undefined, undefined)))
  ELSE LET newNode == StackFrameNode(Head(frames).val)
           pushed  == Push(root, currentNode, newNode)
           index   == Len(NodeAt(pushed, currentNode).children)
       IN  AppendFrames(pushed, currentNode \o <<index>>, Tail(frames))

\* the second for loop
AppendFrames(root, currentNode, frames) ==
  IF frames = <<>> THEN root
  ELSE LET newNode == StackFrameNode(Head(frames).val)
           pushed  == Push(root, currentNode, newNode)
           index   == Len(NodeAt(pushed, currentNode).children)
       IN  AppendFrames(pushed, currentNode \o <<index>>, Tail(frames))

\* the tree after lines 170-203 have run on the reversed call stack
MergedTree(root, stack) ==
  LET st == Overlap(root, stack)
  IN  AppendFrames(root, st.currentNode, NonOverlapping(stack, st))

RECURSIVE Size(_)
RECURSIVE SizeOfList(_, _)
SizeOfList(children, i) ==
  IF i > Len(children) THEN 0
  ELSE Size(children[i]) + SizeOfList(children, i + 1)

\* the number of nodes of a subtree
Size(node) == 1 + SizeOfList(node.children, 1)

RECURSIVE SeqsUpTo(_, _)
SeqsUpTo(S, n) ==
  IF n = 0 THEN {<<>>}
  ELSE LET shorter == SeqsUpTo(S, n - 1)
       IN  shorter \cup {Append(s, x) : s \in shorter, x \in S}

\* the stackFrames a stackTrace response may carry, innermost frame first
StackTraces == SeqsUpTo(StackFrames, MaxDepth)

\* the same, when commands overlap
ShortStackTraces == SeqsUpTo(StackFrames, MaxAsyncNodes)

----------------------------------------------------------------------------
(* Strings: a string is the sequence of its characters *)

\* the characters of a string literal
Chars(s) == [i \in 1..Len(s) |-> SubSeq(s, i, i)]

\* the characters String.prototype.trim and trimEnd remove
WhiteSpace == {" ", "\n", "\t"}

RECURSIVE TrimStart(_)
TrimStart(s) ==
  IF s # <<>> /\ Head(s) \in WhiteSpace THEN TrimStart(Tail(s)) ELSE s

RECURSIVE TrimEnd(_)
\* String.prototype.trimEnd
TrimEnd(s) ==
  IF s # <<>> /\ s[Len(s)] \in WhiteSpace
  THEN TrimEnd(SubSeq(s, 1, Len(s) - 1))
  ELSE s

\* String.prototype.trim
Trim(s) == TrimEnd(TrimStart(s))

RECURSIVE Split(_, _)
\* String.prototype.split with a separator of one character: at least one
\* segment, an empty one for the empty string and between two separators
Split(s, separator) ==
  LET at == {i \in 1..Len(s) : s[i] = separator}
  IN  IF at = {} THEN <<s>>
      ELSE LET i == CHOOSE i \in at : \A j \in at : i <= j
           IN  <<SubSeq(s, 1, i - 1)>> \o Split(SubSeq(s, i + 1, Len(s)), separator)

RECURSIVE Join(_, _)
\* Array.prototype.join
Join(lines, separator) ==
  IF lines = <<>> THEN <<>>
  ELSE IF Len(lines) = 1 THEN lines[1]
  ELSE lines[1] \o separator \o Join(Tail(lines), separator)

\* String.prototype.startsWith
StartsWith(s, prefix) ==
  Len(s) >= Len(prefix) /\ SubSeq(s, 1, Len(prefix)) = prefix

----------------------------------------------------------------------------
(* autoWordWrap: lines 257-283 *)

RECURSIVE WrapLoop(_, _, _, _, _)
\* a test that does not count the space added after the segment
WrapLoop_spaceNotCounted(lineSegments, i, wrappedLines, currentLine, maxLength) ==
  IF i > Len(lineSegments)
  THEN [wrappedLines |-> wrappedLines, currentLine |-> currentLine]
  ELSE LET segment == lineSegments[i]
       IN  IF Len(currentLine) + Len(segment) <= maxLength
           THEN WrapLoop(lineSegments, i + 1, wrappedLines,
                         currentLine \o segment \o Chars(" "), maxLength)
           ELSE WrapLoop(lineSegments, i + 1,
                         IF Len(currentLine) > 0
                         THEN Append(wrappedLines, currentLine)
                         ELSE wrappedLines,
                         IF StartsWith(segment, Chars("*"))
                         THEN Chars(" ") \o segment
                         ELSE segment,
                         maxLength)

\* the for loop of lines 262-277 from segment i on (1-based): wrappedLines
\* and currentLine when it is left
WrapLoop(lineSegments, i, wrappedLines, currentLine, maxLength) ==
  IF i > Len(lineSegments)
  THEN [wrappedLines |-> wrappedLines, currentLine |-> currentLine]
  ELSE LET segment == lineSegments[i]
       IN  IF Len(currentLine) + Len(segment) + 1 <= maxLength
           THEN WrapLoop(lineSegments, i + 1, wrappedLines,
                         currentLine \o segment \o Chars(" "), maxLength)
           ELSE WrapLoop(lineSegments, i + 1,
                         IF Len(currentLine) > 0
                         THEN Append(wrappedLines, currentLine)
                         ELSE wrappedLines,
                         IF StartsWith(segment, Chars("*"))
                         THEN Chars(" ") \o segment
                         ELSE segment,
                         maxLength)

autoWordWrap(line, maxLength) ==
  LET lineSegments == Split(Trim(line), " ")
      left == WrapLoop(lineSegments, 1, <<>>, <<>>, maxLength)
  IN  IF Len(left.currentLine) > 0
      THEN Append(left.wrappedLines, TrimEnd(left.currentLine))
      ELSE left.wrappedLines

----------------------------------------------------------------------------
(* callStackToPlantUML: lines 315-348 *)

\* the default of the setting call-stack-to-plantuml.maxLength
DefaultMaxLength == 60

RECURSIVE traverseNode(_, _)
RECURSIVE TraverseChildren(_, _, _)

\* a loop that opens the fork once more before each child after the first
TraverseChildren_splitEach(node, index, maxLength) ==
  IF index > Len(node.children) THEN <<>>
  ELSE LET child == node.children[index]
           marker == IF index = 1 /\ Len(node.children) > 1
                     THEN Chars("\nsplit\n\n")
                     ELSE IF index > 1 THEN Chars("\nsplit\n\n")
                     ELSE <<>>
           wrappedLines == autoWordWrap(child.frame.name, maxLength)
           jointLine == Join(wrappedLines, Chars("\n"))
       IN  marker \o Chars(":") \o jointLine \o Chars(";\n")
             \o traverseNode(child, maxLength)
             \o TraverseChildren(node, index + 1, maxLength)

\* the text the for loop of traverseNode adds from child index on (index 0
\* of the code is index 1 here)
TraverseChildren(node, index, maxLength) ==
  IF index > Len(node.children) THEN <<>>
  ELSE LET child == node.children[index]
           marker == IF index = 1 /\ Len(node.children) > 1
                     THEN Chars("\nsplit\n\n")
                     ELSE IF index > 1 THEN Chars("\nsplit again\n\n")
                     ELSE <<>>
           wrappedLines == autoWordWrap(child.frame.name, maxLength)
           jointLine == Join(wrappedLines, Chars("\n"))
       IN  marker \o Chars(":") \o jointLine \o Chars(";\n")
             \o traverseNode(child, maxLength)
             \o TraverseChildren(node, index + 1, maxLength)

\* an end split for more than two children only
traverseNode_endSplitLate(node, maxLength) ==
  TraverseChildren(node, 1, maxLength)
    \o (IF Len(node.children) > 2 THEN Chars("\nend split\n\n") ELSE <<>>)

\* the text traverseNode adds to plantUMLScript
traverseNode(node, maxLength) ==
  TraverseChildren(node, 1, maxLength)
    \o (IF Len(node.children) > 1 THEN Chars("\nend split\n\n") ELSE <<>>)

\* a traversal that starts with the activity of the root
callStackToPlantUML_withRoot(root, maxLength) ==
  Chars("@startuml\n") \o Chars("start\n")
    \o Chars(":") \o Join(autoWordWrap(root.frame.name, maxLength), Chars("\n"))
    \o Chars(";\n")
    \o traverseNode(root, maxLength)
    \o Chars("stop\n") \o Chars("@enduml")

\* lines 315-348
callStackToPlantUML(root, maxLength) ==
  Chars("@startuml\n") \o Chars("start\n")
    \o traverseNode(root, maxLength)
    \o Chars("stop\n") \o Chars("@enduml")

----------------------------------------------------------------------------
(* Messages shown with showErrorMessage and showInformationMessage *)

NoSessionMessage == "No active debug session found."
NoThreadsMessage == "No threads available."
NoThreadMessage  == "No thread selected."
RecordedMessage  == "Call stack has been recorded."
ResetMessage     == "Call stack tree has been reset."

----------------------------------------------------------------------------
(* The commands *)

Commands == 1..MaxCmds

Init ==
  /\ rootStackFrameNode = StackFrameNode(RootFrame)
  /\ activeDebugSession = TRUE
  /\ pc = [c \in Commands |-> "idle"]
  /\ cmd = [c \in Commands |-> "record"]
  /\ lastStep = "activate"
  /\ shown = <<>>
  /\ callStack = <<>>
  /\ nonOverlappingFrames = <<>>
  /\ clipboard = <<>>
  /\ configMaxLength = DefaultMaxLength
  /\ wrapLine = <<>>
  /\ wrapped = <<>>
  /\ leftFrame = RootFrame
  /\ rightFrame = RootFrame
  /\ framesEqual = undefined
  /\ longestCallStack = 0
  /\ resetWhileSuspended = [c \in Commands |-> FALSE]

\* lines 167-203: the response is pushed, reversed and merged
Merge(stackFrames, maxNodes) ==
  LET stack == Reversed(stackFrames)
      st    == Overlap(rootStackFrameNode, stack)
      rest  == NonOverlapping(stack, st)
  IN  /\ Size(rootStackFrameNode) - 1 + Len(rest) <= maxNodes
      /\ rootStackFrameNode' = MergedTree(rootStackFrameNode, stack)
      /\ callStack' = stack
      /\ nonOverlappingFrames' = rest
      /\ longestCallStack' =
           IF Len(stackFrames) > longestCallStack
           THEN Len(stackFrames) ELSE longestCallStack

\* no merge in this step
NoMerge == callStack' = <<>> /\ nonOverlappingFrames' = <<>>

\* what the command shows once recordCallStackInfo has returned: lines 474
\* and 490 with 393-413; no event of the host comes between the return and
\* this continuation. The diagram text is not part of the state.
AfterRecord(kind) ==
  IF kind = "record" THEN <<RecordedMessage>>
  ELSE IF ~activeDebugSession THEN <<NoSessionMessage>>
  ELSE <<>>

\* getMaxLength: lines 366-370
getMaxLength == configMaxLength

\* copyCallStackToPlantUML, lines 393-413: what it writes to the clipboard.
\* The message shown once the clipboard holds the text is not part of the
\* state.
copyCallStackToPlantUML(root) ==
  IF ~activeDebugSession THEN <<>>
  ELSE <<callStackToPlantUML(root, getMaxLength)>>

\* a copy that does not wait for recordCallStackInfo: the diagram is that of
\* the tree before the merge
AfterRecordCopy_notAwaited(kind, root) ==
  IF kind = "generate" THEN copyCallStackToPlantUML(rootStackFrameNode)
  ELSE <<>>

\* what the command writes to the clipboard once recordCallStackInfo has
\* returned the tree root: nothing at line 474, the diagram at line 490
AfterRecordCopy(kind, root) ==
  IF kind = "generate" THEN copyCallStackToPlantUML(root) ELSE <<>>

\* the command is over
Finished(c) ==
  /\ pc' = [pc EXCEPT ![c] = "idle"]
  /\ cmd' = [cmd EXCEPT ![c] = "record"]

\* a command that starts from a cleared tree
InvokeCommand_clears(c, kind) ==
  /\ pc[c] = "idle"
  /\ IF ~activeDebugSession
     THEN /\ lastStep' = "noSession"
          /\ shown' = <<NoSessionMessage>>
          /\ UNCHANGED <<pc, cmd, rootStackFrameNode>>
     ELSE /\ lastStep' = "threads"
          /\ shown' = <<>>
          /\ pc' = [pc EXCEPT ![c] = "threads"]
          /\ cmd' = [cmd EXCEPT ![c] = kind]
          /\ rootStackFrameNode' =
               [rootStackFrameNode EXCEPT !.children = <<>>]
  /\ NoMerge
  /\ clipboard' = <<>>
  /\ UNCHANGED <<activeDebugSession, wrapVars, frameVars,
                 longestCallStack>>
  /\ resetWhileSuspended' = [resetWhileSuspended EXCEPT ![c] = FALSE]

\* extension.recordCallStack or extension.copyCallStackToPlantUML is run:
\* lines 466-473 or 482-489, and recordCallStackInfo up to its first await
InvokeCommand(c, kind) ==
  /\ pc[c] = "idle"
  /\ IF ~activeDebugSession
     THEN /\ lastStep' = "noSession"
          /\ shown' = <<NoSessionMessage>>
          /\ UNCHANGED <<pc, cmd>>
     ELSE /\ lastStep' = "threads"
          /\ shown' = <<>>
          /\ pc' = [pc EXCEPT ![c] = "threads"]
          /\ cmd' = [cmd EXCEPT ![c] = kind]
  /\ NoMerge
  /\ clipboard' = <<>>
  /\ UNCHANGED <<rootStackFrameNode, activeDebugSession, wrapVars, frameVars,
                 longestCallStack>>
  /\ resetWhileSuspended' = [resetWhileSuspended EXCEPT ![c] = FALSE]

\* the threads request is answered: lines 137-153
ThreadsResponse(c, hasThreads) ==
  /\ pc[c] = "threads"
  /\ activeDebugSession
  /\ IF ~hasThreads
     THEN /\ lastStep' = "noThreads"
          /\ shown' = <<NoThreadsMessage>> \o AfterRecord(cmd[c])
          /\ clipboard' = AfterRecordCopy(cmd[c], rootStackFrameNode)
          /\ Finished(c)
     ELSE /\ lastStep' = "showQuickPick"
          /\ shown' = <<>>
          /\ clipboard' = <<>>
          /\ pc' = [pc EXCEPT ![c] = "pick"]
          /\ UNCHANGED cmd
  /\ NoMerge
  /\ UNCHANGED <<rootStackFrameNode, activeDebugSession, wrapVars, frameVars,
                 longestCallStack, resetWhileSuspended>>

\* the quick pick is closed, with a thread or without: lines 155-165
ThreadPicked(c, selectedThread) ==
  /\ pc[c] = "pick"
  /\ IF ~selectedThread
     THEN /\ lastStep' = "noThread"
          /\ shown' = <<NoThreadMessage>> \o AfterRecord(cmd[c])
          /\ clipboard' = AfterRecordCopy(cmd[c], rootStackFrameNode)
          /\ Finished(c)
     ELSE /\ lastStep' = "stackTrace"
          /\ shown' = <<>>
          /\ clipboard' = <<>>
          /\ pc' = [pc EXCEPT ![c] = "stackTrace"]
          /\ UNCHANGED cmd
  /\ NoMerge
  /\ UNCHANGED <<rootStackFrameNode, activeDebugSession, wrapVars, frameVars,
                 longestCallStack, resetWhileSuspended>>

\* a merge that yields between its two loops: the step ends when the first
\* loop is left
StackTraceResponse_yields(c, stackFrames, maxNodes) ==
  /\ pc[c] = "stackTrace"
  /\ activeDebugSession
  /\ callStack' = Reversed(stackFrames)
  /\ nonOverlappingFrames' =
       NonOverlapping(callStack', Overlap(rootStackFrameNode, callStack'))
  /\ lastStep' = "merge"
  /\ shown' = <<>>
  /\ clipboard' = <<>>
  /\ UNCHANGED <<rootStackFrameNode, pc, cmd, activeDebugSession, wrapVars, frameVars,
                 longestCallStack, resetWhileSuspended>>

\* the stackTrace request is answered: lines 167-203, then the continuation
StackTraceResponse(c, stackFrames, maxNodes) ==
  /\ pc[c] = "stackTrace"
  /\ activeDebugSession
  /\ Merge(stackFrames, maxNodes)
  /\ lastStep' = "merge"
  /\ shown' = AfterRecord(cmd[c])
  /\ clipboard' = AfterRecordCopy(cmd[c], rootStackFrameNode')
  /\ Finished(c)
  /\ UNCHANGED <<activeDebugSession, wrapVars, frameVars,
                 resetWhileSuspended>>

\* a failure that clears the tree
RequestThrows_clears(c) ==
  /\ pc[c] \in {"threads", "stackTrace"}
  /\ lastStep' = "throw"
  /\ shown' = <<>>
  /\ Finished(c)
  /\ NoMerge
  /\ clipboard' = <<>>
  /\ rootStackFrameNode' = [rootStackFrameNode EXCEPT !.children = <<>>]
  /\ UNCHANGED <<activeDebugSession, wrapVars, frameVars,
                 longestCallStack, resetWhileSuspended>>

\* customRequest throws: the promise of recordCallStackInfo is rejected, and
\* with it the promise of the command
RequestThrows(c) ==
  /\ pc[c] \in {"threads", "stackTrace"}
  /\ lastStep' = "throw"
  /\ shown' = <<>>
  /\ Finished(c)
  /\ NoMerge
  /\ clipboard' = <<>>
  /\ UNCHANGED <<rootStackFrameNode, activeDebugSession, wrapVars, frameVars,
                 longestCallStack, resetWhileSuspended>>

\* a reset that gives its parameter a new node and leaves the tree
resetCallStackTree_rebinds ==
  /\ rootStackFrameNode' = rootStackFrameNode
  /\ shown' = <<ResetMessage>>
  /\ longestCallStack' = 0
  /\ resetWhileSuspended' = [c \in Commands |-> pc[c] # "idle"]

\* resetCallStackTree: lines 430-433
resetCallStackTree ==
  /\ rootStackFrameNode' = [rootStackFrameNode EXCEPT !.children = <<>>]
  /\ shown' = <<ResetMessage>>
  /\ longestCallStack' = 0
  /\ resetWhileSuspended' = [c \in Commands |-> pc[c] # "idle"]

\* a reset that ends the commands that wait at an await
ResetCommand_cancels ==
  /\ resetCallStackTree
  /\ lastStep' = "reset"
  /\ NoMerge
  /\ clipboard' = <<>>
  /\ pc' = [c \in Commands |-> "idle"]
  /\ cmd' = [c \in Commands |-> "record"]
  /\ UNCHANGED <<activeDebugSession, wrapVars, frameVars>>

\* the command extension.resetCallStackTree: lines 496-501
ResetCommand ==
  /\ resetCallStackTree
  /\ lastStep' = "reset"
  /\ NoMerge
  /\ clipboard' = <<>>
  /\ UNCHANGED <<activeDebugSession, pc, cmd, wrapVars, frameVars>>

\* onDidStartDebugSession: lines 505-509
DebugSessionStarted ==
  /\ activeDebugSession' = TRUE
  /\ resetCallStackTree
  /\ lastStep' = "sessionStart"
  /\ NoMerge
  /\ clipboard' = <<>>
  /\ UNCHANGED <<pc, cmd, wrapVars, frameVars>>

\* the last debug session ends
DebugSessionEnded ==
  /\ activeDebugSession
  /\ activeDebugSession' = FALSE
  /\ lastStep' = "sessionEnd"
  /\ shown' = <<>>
  /\ NoMerge
  /\ clipboard' = <<>>
  /\ UNCHANGED <<rootStackFrameNode, pc, cmd, wrapVars, frameVars,
                 longestCallStack, resetWhileSuspended>>

Next ==
  \/ \E c \in Commands, kind \in {"record", "generate"} : InvokeCommand(c, kind)
  \/ \E c \in Commands, hasThreads \in BOOLEAN : ThreadsResponse(c, hasThreads)
  \/ \E c \in Commands, selectedThread \in BOOLEAN : ThreadPicked(c, selectedThread)
  \/ \E c \in Commands, stackFrames \in ShortStackTraces :
       StackTraceResponse(c, stackFrames, MaxAsyncNodes)
  \/ \E c \in Commands : RequestThrows(c)
  \/ ResetCommand
  \/ DebugSessionStarted
  \/ DebugSessionEnded

\* commands overlap at their awaits
Spec == Init /\ [][Next]_vars

----------------------------------------------------------------------------
(* Commands run one at a time, in a debug session that stays *)

\* extension.recordCallStack from its invocation to its end, with threads,
\* a thread picked and a stackTrace response
RecordCallStack(stackFrames) ==
  /\ \A c \in Commands : pc[c] = "idle"
  /\ activeDebugSession
  /\ Merge(stackFrames, MaxNodes)
  /\ lastStep' = "merge"
  /\ shown' = <<RecordedMessage>>
  /\ clipboard' = <<>>
  /\ UNCHANGED <<activeDebugSession, pc, cmd, wrapVars, frameVars,
                 resetWhileSuspended>>

NextSeq ==
  \/ \E stackFrames \in StackTraces : RecordCallStack(stackFrames)
  \/ ResetCommand

SpecSeq == Init /\ [][NextSeq]_vars

\* RecordCallStack on larger trees: the call stack merged is not kept
RecordCallStackTree(stackFrames) ==
  /\ \A c \in Commands : pc[c] = "idle"
  /\ activeDebugSession
  /\ rootStackFrameNode' = MergedTree(rootStackFrameNode, Reversed(stackFrames))
  /\ Size(rootStackFrameNode') - 1 <= MaxTreeNodes
  /\ lastStep' = "merge"
  /\ shown' = <<RecordedMessage>>
  /\ NoMerge
  /\ clipboard' = <<>>
  /\ UNCHANGED <<activeDebugSession, pc, cmd, wrapVars, frameVars,
                 resetWhileSuspended>>
  /\ longestCallStack' =
       IF Len(stackFrames) > longestCallStack
       THEN Len(stackFrames) ELSE longestCallStack

\* extension.copyCallStackToPlantUML from its invocation to its end, with
\* threads, a thread picked and a stackTrace response: lines 482-490
CopyCallStackTree(stackFrames) ==
  /\ \A c \in Commands : pc[c] = "idle"
  /\ activeDebugSession
  /\ rootStackFrameNode' = MergedTree(rootStackFrameNode, Reversed(stackFrames))
  /\ Size(rootStackFrameNode') - 1 <= MaxTreeNodes
  /\ lastStep' = "merge"
  /\ shown' = <<>>
  /\ NoMerge
  /\ clipboard' = copyCallStackToPlantUML(rootStackFrameNode')
  /\ UNCHANGED <<activeDebugSession, pc, cmd, wrapVars, frameVars,
                 resetWhileSuspended>>
  /\ longestCallStack' =
       IF Len(stackFrames) > longestCallStack
       THEN Len(stackFrames) ELSE longestCallStack

NextTree ==
  \/ \E stackFrames \in StackTraces : RecordCallStackTree(stackFrames)
  \/ \E stackFrames \in StackTraces : CopyCallStackTree(stackFrames)
  \/ ResetCommand

SpecTree == Init /\ [][NextTree]_vars

\* the same commands in a program of three functions, with shorter call
\* stacks: a node of the tree may get three children
WideStackFrames ==
  {StackFrame(n, Source("/src/app.ts"), Some(10), Some(5)) :
     n \in Names \cup {<<"C">>}}

WideStackTraces == SeqsUpTo(WideStackFrames, MaxWideDepth)

NextWide ==
  \/ \E stackFrames \in WideStackTraces : RecordCallStackTree(stackFrames)
  \/ \E stackFrames \in WideStackTraces : CopyCallStackTree(stackFrames)
  \/ ResetCommand

SpecWide == Init /\ [][NextWide]_vars

----------------------------------------------------------------------------
(* autoWordWrap applied to one line *)

\* the characters of the lines: a letter, the space and the asterisk
Alphabet == {"a", " ", "*"}

Lines == SeqsUpTo(Alphabet, MaxLineLength)

Widths == 0..MaxWidth

\* the example of the documentation of autoWordWrap: lines 253-254
DocumentedExample ==
  <<Chars("This is a very long function name that needs wrapping"), 30>>

\* the example of the documentation and a shorter one
Examples == {DocumentedExample, <<Chars("one two three"), 7>>}

InitWrap ==
  /\ rootStackFrameNode = StackFrameNode(RootFrame)
  /\ activeDebugSession = TRUE
  /\ pc = [c \in Commands |-> "idle"]
  /\ cmd = [c \in Commands |-> "record"]
  /\ lastStep = "activate"
  /\ shown = <<>>
  /\ callStack = <<>>
  /\ nonOverlappingFrames = <<>>
  /\ clipboard = <<>>
  /\ \E input \in (Lines \X Widths) \cup Examples :
       wrapLine = input[1] /\ configMaxLength = input[2]
  /\ wrapped = <<>>
  /\ leftFrame = RootFrame
  /\ rightFrame = RootFrame
  /\ framesEqual = undefined
  /\ longestCallStack = 0
  /\ resetWhileSuspended = [c \in Commands |-> FALSE]

AutoWordWrap ==
  /\ lastStep = "activate"
  /\ wrapped' = autoWordWrap(wrapLine, configMaxLength)
  /\ lastStep' = "autoWordWrap"
  /\ UNCHANGED <<rootStackFrameNode, activeDebugSession, pc, cmd, shown,
                 callStack, nonOverlappingFrames, clipboard, configMaxLength,
                 wrapLine, frameVars,
                 longestCallStack, resetWhileSuspended>>

NextWrap == AutoWordWrap

SpecWrap == InitWrap /\ [][NextWrap]_vars

----------------------------------------------------------------------------
(* areFramesEqual applied to two frames *)

\* source: absent, present without a path, present with one of two paths
Sources ==
  {undefined, Some([path |-> undefined]), Source("/src/app.ts"),
   Source("/src/lib.ts")}

\* line and column: absent or one of two numbers
Positions == {undefined, Some(5), Some(10)}

\* the frames a response may carry, as far as areFramesEqual reads them
AnyStackFrames ==
  {StackFrame(n, s, l, c) :
     n \in Names, s \in Sources, l \in Positions, c \in Positions}

InitFrames ==
  /\ rootStackFrameNode = StackFrameNode(RootFrame)
  /\ activeDebugSession = TRUE
  /\ pc = [c \in Commands |-> "idle"]
  /\ cmd = [c \in Commands |-> "record"]
  /\ lastStep = "activate"
  /\ shown = <<>>
  /\ callStack = <<>>
  /\ nonOverlappingFrames = <<>>
  /\ clipboard = <<>>
  /\ configMaxLength = DefaultMaxLength
  /\ wrapLine = <<>>
  /\ wrapped = <<>>
  /\ leftFrame \in AnyStackFrames
  /\ rightFrame \in AnyStackFrames
  /\ framesEqual = undefined
  /\ longestCallStack = 0
  /\ resetWhileSuspended = [c \in Commands |-> FALSE]

AreFramesEqual ==
  /\ lastStep = "activate"
  /\ framesEqual' = Some(areFramesEqual(leftFrame, rightFrame))
  /\ lastStep' = "areFramesEqual"
  /\ UNCHANGED <<rootStackFrameNode, activeDebugSession, pc, cmd, shown,
                 callStack, nonOverlappingFrames, clipboard, wrapVars,
                 leftFrame, rightFrame,
                 longestCallStack, resetWhileSuspended>>

NextFrames == AreFramesEqual

SpecFrames == InitFrames /\ [][NextFrames]_vars

----------------------------------------------------------------------------
(* What the claims speak of *)

RECURSIVE PathsOf(_)
\* the paths of all the nodes of a subtree, <<>> for its root
PathsOf(node) ==
  {<<>>} \cup UNION {{<<i>> \o p : p \in PathsOf(node.children[i])} :
                       i \in 1..Len(node.children)}

\* the frames of a call stack, without the objects' identities
Frames(stack) == [i \in 1..Len(stack) |-> stack[i].val]

\* two frames are equivalent
Equivalent(f, g) == areFramesEqual(f, g)

\* path p descends from a child of the root and is labelled by the frames
LabelledBy(root, p, frames) ==
  /\ Len(p) = Len(frames)
  /\ \A i \in 1..Len(p) :
       Equivalent(NodeAt(root, SubSeq(p, 1, i)).frame, frames[i])

\* the frames are readable as a path from the root
ReadableFromRoot(root, frames) ==
  \E p \in PathsOf(root) : LabelledBy(root, p, frames)

RECURSIVE Searches(_, _, _, _)
\* what findNodeInChildren returned in the iterations of the first loop that
\* found a node, in order: paths relative to the cursor of the iteration
Searches(root, stack, i, cursor) ==
  IF i > Len(stack) THEN <<>>
  ELSE LET found == findNodeInChildren(NodeAt(root, cursor), stack[i].val)
       IN  IF found = null THEN <<>>
           ELSE <<found>> \o Searches(root, stack, i + 1, cursor \o found)

\* the number of frames the first loop matched
Matched(root, stack) == Len(Searches(root, stack, 1, <<>>))

RECURSIVE ChainOf(_)
\* the children list that holds one linear chain of new nodes for the frames
ChainOf(frames) ==
  IF frames = <<>> THEN <<>>
  ELSE <<[frame |-> Head(frames), children |-> ChainOf(Tail(frames))]>>

RECURSIVE Graft(_, _, _)
\* the tree with the nodes of a list added after the children of node p
Graft(node, p, list) ==
  IF p = <<>> THEN [frame |-> node.frame, children |-> node.children \o list]
  ELSE [frame    |-> node.frame,
        children |-> [i \in 1..Len(node.children) |->
                        IF i = Head(p)
                        THEN Graft(node.children[i], Tail(p), list)
                        ELSE node.children[i]]]

\* the tree that holds the synthetic root only
RootOnly == [frame |-> RootFrame, children |-> <<>>]

\* the last step merged a call stack
Merged == lastStep = "merge"

\* the last step merged a call stack into the root-only tree: all the nodes
\* there are were made by it
MergedIntoRootOnly ==
  /\ Merged
  /\ Size(rootStackFrameNode) - 1 = Len(nonOverlappingFrames)

\* s is a sequence of pairwise non-equivalent frames
PairwiseDistinct(s) ==
  \A i, j \in 1..Len(s) : i # j => ~Equivalent(s[i], s[j])

----------------------------------------------------------------------------
(* C1: in every reachable state no node, the root included, has two        *)
(* children whose frames are equivalent.                                   *)

C1_NoEquivalentSiblings ==
  \A p \in PathsOf(rootStackFrameNode) :
    LET children == NodeAt(rootStackFrameNode, p).children
    IN  \A i, j \in 1..Len(children) :
          i # j => ~Equivalent(children[i].frame, children[j].frame)

\* a merge has just given a node that had a child a second child
C1_Witness ==
  /\ Merged
  /\ nonOverlappingFrames # <<>>
  /\ \E p \in PathsOf(rootStackFrameNode) :
       /\ Len(NodeAt(rootStackFrameNode, p).children) >= 2
       /\ NodeAt(rootStackFrameNode, p \o <<2>>).children = <<>>

----------------------------------------------------------------------------
(* C2: every non-empty call stack merged since the last reset is readable  *)
(* as a path from the root. A merge removes and moves no node, so it is    *)
(* enough that a call stack is readable right after its merge.             *)

C2_MergedStackReadableFromRoot ==
  (Merged /\ callStack # <<>>) =>
    ReadableFromRoot(rootStackFrameNode, Frames(callStack))

----------------------------------------------------------------------------
(* C3: in a merge, each frame is looked for among the direct children of   *)
(* the cursor only: whenever the search finds a node, it is a direct child *)
(* of the cursor.                                                          *)

C3_SearchesDirectChildrenOnly ==
  [][ lastStep' = "merge" =>
        LET found == Searches(rootStackFrameNode, callStack', 1, <<>>)
        IN  \A i \in 1..Len(found) : Len(found[i]) = 1 ]_vars

----------------------------------------------------------------------------
(* C4: for pairwise non-equivalent frames, merging P.X and then P.Y into   *)
(* the root-only tree, X and Y non-empty with different first frames,      *)
(* gives one chain for P whose last node (the root when P is empty) has    *)
(* exactly two children: the head of the chain X, then the head of the     *)
(* chain Y.                                                                *)

\* the length of the longest common prefix of two sequences
RECURSIVE CommonPrefix(_, _)
CommonPrefix(s, t) ==
  IF s = <<>> \/ t = <<>> \/ Head(s) # Head(t) THEN 0
  ELSE 1 + CommonPrefix(Tail(s), Tail(t))

RECURSIVE Fork(_, _, _)
\* the children list: the chain P, whose last node has the chains X and Y
Fork(P, X, Y) ==
  IF P = <<>> THEN ChainOf(X) \o ChainOf(Y)
  ELSE <<[frame |-> Head(P), children |-> Fork(Tail(P), X, Y)]>>

C4_DivergingStacksFork ==
  [][ (MergedIntoRootOnly /\ lastStep' = "merge") =>
        LET s1 == Frames(callStack)
            s2 == Frames(callStack')
            k  == CommonPrefix(s1, s2)
            P  == SubSeq(s1, 1, k)
            X  == SubSeq(s1, k + 1, Len(s1))
            Y  == SubSeq(s2, k + 1, Len(s2))
        IN  (X # <<>> /\ Y # <<>> /\ PairwiseDistinct(P \o X \o Y)) =>
              rootStackFrameNode' =
                [frame |-> RootFrame, children |-> Fork(P, X, Y)] ]_vars

----------------------------------------------------------------------------
(* C5: a merge makes new nodes exactly for the frames from the first one   *)
(* not matched to the end of the call stack, one node per frame, in order, *)
(* as one linear chain added after the children of the last matched node   *)
(* (the root if no frame matched); also when frames repeat.                *)

C5_NewNodesAreOneChain ==
  [][ lastStep' = "merge" =>
        LET stack == callStack'
            k     == Matched(rootStackFrameNode, stack)
            rest  == SubSeq(Frames(stack), k + 1, Len(stack))
            at    == Overlap(rootStackFrameNode, stack).currentNode
        IN  /\ Frames(nonOverlappingFrames') = rest
            /\ rootStackFrameNode' =
                 Graft(rootStackFrameNode, at, ChainOf(rest)) ]_vars

\* the call stack merged last repeats a frame among those matched, and a
\* new node was made
C5_Witness ==
  /\ Merged
  /\ nonOverlappingFrames # <<>>
  /\ \E i, j \in 1..(Len(callStack) - Len(nonOverlappingFrames)) :
       i < j /\ Equivalent(callStack[i].val, callStack[j].val)

----------------------------------------------------------------------------
(* C6: if the frames of a call stack label a path that starts at a child   *)
(* of the root, merging it leaves the tree unchanged, for every reachable  *)
(* tree.                                                                   *)

C6_PresentPathMergesToNothing ==
  \A stackFrames \in StackTraces \ {<<>>} :
    LET stack == Reversed(stackFrames)
    IN  ReadableFromRoot(rootStackFrameNode, Frames(stack)) =>
          MergedTree(rootStackFrameNode, stack) = rootStackFrameNode

----------------------------------------------------------------------------
(* C7: merging an empty call stack leaves the tree as it is.               *)

C7_EmptyStackChangesNothing ==
  [][ (lastStep' = "merge" /\ callStack' = <<>>) =>
        rootStackFrameNode' = rootStackFrameNode ]_vars

\* an empty call stack has just been merged into a tree with a fork
C7_Witness ==
  /\ Merged
  /\ callStack = <<>>
  /\ Len(rootStackFrameNode.children) >= 2

----------------------------------------------------------------------------
(* C8: merging the same non-empty call stack a second time into the tree   *)
(* that its merge into the root-only tree gave changes nothing, also when  *)
(* the call stack repeats a frame.                                         *)

C8_SecondMergeChangesNothing ==
  [][ (/\ MergedIntoRootOnly
       /\ callStack # <<>>
       /\ lastStep' = "merge"
       /\ Frames(callStack') = Frames(callStack)) =>
        rootStackFrameNode' = rootStackFrameNode ]_vars

\* a call stack that repeats a frame has just been merged for the second
\* time: the tree is the chain of its frames and nothing was added
C8_Witness ==
  /\ Merged
  /\ nonOverlappingFrames = <<>>
  /\ ~PairwiseDistinct(Frames(callStack))
  /\ rootStackFrameNode.children = ChainOf(Frames(callStack))

----------------------------------------------------------------------------
(* C9: a merge removes, moves and reorders no node: every node keeps its   *)
(* path and its frame, and the children a node had are the first of the    *)
(* children it has.                                                        *)

C9_MergeKeepsNodesInPlace ==
  [][ lastStep' = "merge" =>
        \A p \in PathsOf(rootStackFrameNode) :
          /\ p \in PathsOf(rootStackFrameNode')
          /\ LET old == NodeAt(rootStackFrameNode, p)
                 new == NodeAt(rootStackFrameNode', p)
             IN  /\ new.frame = old.frame
                 /\ Len(new.children) >= Len(old.children)
                 /\ \A i \in 1..Len(old.children) :
                      new.children[i].frame = old.children[i].frame ]_vars

\* a merge has just added a chain of two nodes after the child of a node
C9_Witness ==
  /\ Merged
  /\ Len(nonOverlappingFrames) >= 2
  /\ \E p \in PathsOf(rootStackFrameNode) :
       /\ Len(NodeAt(rootStackFrameNode, p).children) = 2
       /\ Len(NodeAt(rootStackFrameNode, p \o <<2>>).children) = 1
       /\ NodeAt(rootStackFrameNode, p \o <<2>>).frame = nonOverlappingFrames[1].val

----------------------------------------------------------------------------
(* C10: a step of a command that is not the merge of a complete response   *)
(* leaves the tree as it is; so does a command that ends with no debug     *)
(* session, no threads, no thread picked or a request that throws.         *)

FailureSteps == {"noSession", "noThreads", "noThread", "throw"}

AwaitSteps == {"threads", "showQuickPick", "stackTrace"}

C10_FailureLeavesTree ==
  [][ lastStep' \in FailureSteps \cup AwaitSteps =>
        rootStackFrameNode' = rootStackFrameNode ]_vars

\* a command has just ended in a failure, and the tree holds nodes
C10_Witness ==
  /\ lastStep \in FailureSteps
  /\ rootStackFrameNode.children # <<>>
  /\ \A c \in Commands : pc[c] = "idle"

----------------------------------------------------------------------------
(* C11: a command that fails to obtain a call stack (no threads, no thread *)
(* picked, a request that throws) ends there: it writes no diagram to the  *)
(* clipboard and does not show that the call stack has been recorded.      *)

NoCallStackSteps == {"noThreads", "noThread", "throw"}

C11_FailureIsTerminal ==
  [][ lastStep' \in NoCallStackSteps =>
        /\ clipboard' = <<>>
        /\ \A i \in 1..Len(shown') : shown'[i] # RecordedMessage ]_vars

----------------------------------------------------------------------------
(* C12: a command changes the tree only in the step that follows the       *)
(* stackTrace response, after the threads response and the thread pick,    *)
(* and that step merges the whole call stack; a step that leaves the       *)
(* command suspended at an await changes nothing in the tree.              *)

C12_TreeChangesOnlyAtMerge ==
  [][ /\ rootStackFrameNode' # rootStackFrameNode =>
           lastStep' \in {"merge", "reset", "sessionStart"}
      /\ lastStep' = "merge" =>
           /\ \E c \in Commands : pc[c] = "stackTrace" /\ pc'[c] = "idle"
           /\ rootStackFrameNode' = MergedTree(rootStackFrameNode, callStack')
      /\ \A c \in Commands :
           (pc'[c] # pc[c] /\ pc'[c] # "idle") =>
             rootStackFrameNode' = rootStackFrameNode ]_vars

\* a call stack has just been merged and has given the tree a node, while
\* another command is suspended at an await
C12_Witness ==
  /\ lastStep = "merge"
  /\ nonOverlappingFrames # <<>>
  /\ rootStackFrameNode.children # <<>>
  /\ \E c \in Commands : pc[c] # "idle"

----------------------------------------------------------------------------
(* C13: the two loops of a merge run in one step, also when commands       *)
(* overlap at their awaits: the new nodes hang where the lookups of the    *)
(* same step, made in the tree as it was before the step, left the cursor, *)
(* and in that step no other command moves and no session starts or ends.  *)

C13_MergeIsOneStep ==
  [][ lastStep' = "merge" =>
        LET st == Overlap(rootStackFrameNode, callStack')
        IN  /\ rootStackFrameNode' =
                 Graft(rootStackFrameNode, st.currentNode,
                       ChainOf(Frames(nonOverlappingFrames')))
            /\ \E c \in Commands :
                 /\ pc[c] = "stackTrace" /\ pc'[c] = "idle"
                 /\ \A d \in Commands \ {c} :
                      pc'[d] = pc[d] /\ cmd'[d] = cmd[d]
            /\ activeDebugSession' = activeDebugSession ]_vars

\* a call stack has just been merged whose frames were all found in the
\* tree, while another command waits for its stackTrace response
C13_Witness ==
  /\ lastStep = "merge"
  /\ callStack # <<>>
  /\ nonOverlappingFrames = <<>>
  /\ \E c \in Commands : pc[c] = "stackTrace"

----------------------------------------------------------------------------
(* C14: a reset, by the command or by the start of a debug session, leaves *)
(* the root without children whatever the tree was, and a reset that       *)
(* follows a reset changes nothing.                                        *)

ResetSteps == {"reset", "sessionStart"}

C14_ResetClearsTree ==
  [][ lastStep' \in ResetSteps =>
        /\ rootStackFrameNode' = RootOnly
        /\ lastStep \in ResetSteps =>
             rootStackFrameNode' = rootStackFrameNode ]_vars

\* the start of a debug session has just reset the tree while a command
\* waits for its stackTrace response
C14_Witness ==
  /\ lastStep = "sessionStart"
  /\ shown = <<ResetMessage>>
  /\ rootStackFrameNode.children = <<>>
  /\ \E c \in Commands : pc[c] = "stackTrace"

----------------------------------------------------------------------------
(* C15: a generate command that gets its call stack merges it and then     *)
(* writes to the clipboard the diagram of the tree as it is after the      *)
(* merge; a record command writes nothing to the clipboard, in none of its *)
(* steps.                                                                  *)

\* command c ends in this step
Ends(c) == pc[c] # "idle" /\ pc'[c] = "idle"

C15_GenerateCopiesMergedTree ==
  [][ /\ \A c \in Commands :
           (Ends(c) /\ cmd[c] = "generate" /\ lastStep' = "merge") =>
             /\ rootStackFrameNode' =
                  MergedTree(rootStackFrameNode, callStack')
             /\ clipboard' =
                  <<callStackToPlantUML(rootStackFrameNode', configMaxLength)>>
      /\ \A c \in Commands :
           (pc'[c] # pc[c] /\ cmd'[c] = "record" /\ cmd[c] = "record") =>
             clipboard' = <<>> ]_vars

\* a generate command has just merged a call stack that gave the tree a
\* node, and the clipboard holds a diagram
C15_Witness ==
  /\ lastStep = "merge"
  /\ nonOverlappingFrames # <<>>
  /\ clipboard # <<>>

----------------------------------------------------------------------------
(* C16: the diagram of a tree in which every node has at most one child    *)
(* (the root-only tree too) is the header, one start, one activity for     *)
(* each node but the root, from the root's child down, one stop and the    *)
(* footer, with no split, split again or end split.                        *)

RECURSIVE IsChain(_)
IsChain(node) ==
  /\ Len(node.children) <= 1
  /\ \A i \in 1..Len(node.children) : IsChain(node.children[i])

\* the activity of a frame, as the diagram holds it
Activity(frame) ==
  Chars(":") \o Join(autoWordWrap(frame.name, configMaxLength), Chars("\n"))
    \o Chars(";\n")

RECURSIVE ChainActivities(_)
\* the activities of the nodes below a node of a chain, from the top down
ChainActivities(node) ==
  IF node.children = <<>> THEN <<>>
  ELSE Activity(node.children[1].frame) \o ChainActivities(node.children[1])

C16_ChainHasNoSplit ==
  (clipboard # <<>> /\ IsChain(rootStackFrameNode)) =>
    clipboard[1] = Chars("@startuml\nstart\n")
                     \o ChainActivities(rootStackFrameNode)
                     \o Chars("stop\n@enduml")

\* the clipboard holds the diagram of a chain of three nodes below the root
C16_Witness ==
  /\ clipboard # <<>>
  /\ IsChain(rootStackFrameNode)
  /\ Size(rootStackFrameNode) = 4

----------------------------------------------------------------------------
(* C17: for a node with more than one child the diagram holds split, the   *)
(* activity of the first child and the diagram of its subtree, then for    *)
(* each further child, in the order of the children, split again, its      *)
(* activity and its subtree, and end split after the subtree of the last   *)
(* child; every node but the root gives one activity, in pre-order.        *)

\* the lines of a text that are not empty
TextLines(text) ==
  SelectSeq(Split(text, "\n"), LAMBDA l : l # <<>>)

RECURSIVE Markers(_)
RECURSIVE MarkersFrom(_, _)
\* the lines expected for the children of a node from child i on
MarkersFrom(node, i) ==
  IF i > Len(node.children) THEN <<>>
  ELSE (IF Len(node.children) = 1 THEN <<>>
        ELSE IF i = 1 THEN <<Chars("split")>>
        ELSE <<Chars("split again")>>)
       \o TextLines(Activity(node.children[i].frame))
       \o Markers(node.children[i])
       \o MarkersFrom(node, i + 1)

\* the lines expected for the subtree of a node, without the node itself
Markers(node) ==
  MarkersFrom(node, 1)
    \o (IF Len(node.children) > 1 THEN <<Chars("end split")>> ELSE <<>>)

----------------------------------------------------------------------------
(* C18: autoWordWrap packs the segments greedily: each line it returns is  *)
(* the longest run of consecutive segments whose join with single spaces   *)
(* is no longer than maxLength, without a trailing space; the line         *)
(* "one two three" wrapped at 7 gives "one two" and "three". Segments that *)
(* start with an asterisk have a rule of their own and are left out.       *)

\* autoWordWrap has been applied to wrapLine
Wrapped == lastStep = "autoWordWrap"

\* the segments autoWordWrap splits the line into
SegmentsOf(line) == Split(Trim(line), " ")

NoAsterisk(segments) ==
  \A i \in 1..Len(segments) : ~StartsWith(segments[i], Chars("*"))

\* the last segment of the longest run from segment i on that fits, or i
\* when segment i alone does not fit
RunEnd(segments, i, width) ==
  LET fit == {j \in i..Len(segments) :
                Len(Join(SubSeq(segments, i, j), Chars(" "))) <= width}
  IN  IF fit = {} THEN i ELSE CHOOSE j \in fit : \A k \in fit : k <= j

RECURSIVE Greedy(_, _, _)
Greedy(segments, i, width) ==
  IF i > Len(segments) THEN <<>>
  ELSE LET j == RunEnd(segments, i, width)
       IN  <<Join(SubSeq(segments, i, j), Chars(" "))>>
             \o Greedy(segments, j + 1, width)

C18_WrapPacksGreedily ==
  (Wrapped /\ NoAsterisk(SegmentsOf(wrapLine))) =>
    wrapped = Greedy(SegmentsOf(wrapLine), 1, configMaxLength)

----------------------------------------------------------------------------
(* C19: the words of the lines autoWordWrap returns, taken line by line,   *)
(* are the words of the line it was given, in the same order: no two words *)
(* are glued together and none is lost, repeated or moved. The line of the *)
(* documentation wrapped at 30 gives "This is a very long function" and    *)
(* "name that needs wrapping".                                             *)

\* the words of a string: what is left when it is split at its spaces
WordsOf(s) == SelectSeq(Split(s, " "), LAMBDA w : w # <<>>)

RECURSIVE WordsOfLines(_)
WordsOfLines(lines) ==
  IF lines = <<>> THEN <<>>
  ELSE WordsOf(Head(lines)) \o WordsOfLines(Tail(lines))

C19_WrapKeepsWords ==
  Wrapped =>
    /\ WordsOfLines(wrapped) = WordsOf(wrapLine)
    /\ wrapLine = DocumentedExample[1] /\ configMaxLength = DocumentedExample[2] =>
         wrapped = <<Chars("This is a very long function"),
                     Chars("name that needs wrapping")>>

----------------------------------------------------------------------------
(* C20: when maxLength is at least 1 and every segment of the line is      *)
(* shorter than maxLength, no line autoWordWrap returns is longer than     *)
(* maxLength, its leading and trailing spaces counted.                     *)

AllShorter(segments, width) ==
  \A i \in 1..Len(segments) : Len(segments[i]) < width

C20_LinesFit ==
  (/\ Wrapped
   /\ configMaxLength >= 1
   /\ AllShorter(SegmentsOf(wrapLine), configMaxLength)) =>
    \A i \in 1..Len(wrapped) : Len(wrapped[i]) <= configMaxLength

\* a line of segments shorter than maxLength has been wrapped into two
\* lines or more, one of them exactly maxLength long and one of them
\* starting with a space
C20_Witness ==
  /\ Wrapped
  /\ configMaxLength >= 1
  /\ AllShorter(SegmentsOf(wrapLine), configMaxLength)
  /\ Len(wrapped) >= 2
  /\ \E i \in 1..Len(wrapped) : Len(wrapped[i]) = configMaxLength
  /\ \E i \in 1..Len(wrapped) : StartsWith(wrapped[i], Chars(" "))

----------------------------------------------------------------------------
(* C21: areFramesEqual is reflexive and symmetric, and an absent source    *)
(* path is a value like any other: two frames without a source path can be *)
(* equal, and a frame without a source path never equals a frame with one. *)

\* areFramesEqual has been applied to leftFrame and rightFrame
Compared == lastStep = "areFramesEqual"

NoPath(frame) == SourcePath(frame) = undefined

C21_EqualityTreatsAbsentPath ==
  Compared =>
    /\ leftFrame = rightFrame => framesEqual = Some(TRUE)
    /\ framesEqual = Some(areFramesEqual(rightFrame, leftFrame))
    /\ (/\ NoPath(leftFrame) /\ NoPath(rightFrame)
        /\ leftFrame.name = rightFrame.name
        /\ leftFrame.line = rightFrame.line
        /\ leftFrame.column = rightFrame.column) => framesEqual = Some(TRUE)
    /\ NoPath(leftFrame) # NoPath(rightFrame) => framesEqual = Some(FALSE)

\* two frames have been found equal of which one has no source and the
\* other a source without a path
C21_Witness ==
  /\ Compared
  /\ framesEqual = Some(TRUE)
  /\ leftFrame.source = undefined
  /\ rightFrame.source # undefined
  /\ NoPath(rightFrame)

----------------------------------------------------------------------------
(* C22: two frames are equal if and only if their name, source path and    *)
(* line match; the column takes no part.                                   *)

C22_ColumnTakesNoPart ==
  Compared =>
    framesEqual = Some(/\ leftFrame.name = rightFrame.name
                       /\ SourcePath(leftFrame) = SourcePath(rightFrame)
                       /\ leftFrame.line = rightFrame.line)

----------------------------------------------------------------------------
(* C23: findNodeInChildren is a depth-first search in pre-order: for every *)
(* node of the tree and every frame it returns null exactly when no node   *)
(* of the subtree has an equal frame, and otherwise the first such node in *)
(* pre-order, the node itself before its children, the subtree of a child  *)
(* before the next child. The search reads the tree only.                  *)

\* path p comes before path q in pre-order, or is q
RECURSIVE PreOrder(_, _)
PreOrder(p, q) ==
  \/ p = <<>>
  \/ /\ q # <<>>
     /\ \/ Head(p) < Head(q)
        \/ Head(p) = Head(q) /\ PreOrder(Tail(p), Tail(q))

\* the paths, relative to node, of the nodes with a frame equal to frame
Matches(node, frame) ==
  {q \in PathsOf(node) : Equivalent(NodeAt(node, q).frame, frame)}

C23_SearchIsDepthFirst ==
  \A p \in PathsOf(rootStackFrameNode) :
    \A frame \in StackFrames :
      LET node  == NodeAt(rootStackFrameNode, p)
          found == findNodeInChildren(node, frame)
      IN  IF Matches(node, frame) = {} THEN found = null
          ELSE /\ found \in Matches(node, frame)
               /\ \A q \in Matches(node, frame) : PreOrder(found, q)

\* the tree holds two nodes with equal frames, and the one the search from
\* the root returns lies deeper than the other
C23_Witness ==
  \E frame \in StackFrames :
    LET found == findNodeInChildren(rootStackFrameNode, frame)
    IN  /\ found # null
        /\ Len(found) = 2
        /\ \E q \in Matches(rootStackFrameNode, frame) : Len(q) = 1

----------------------------------------------------------------------------
(* C24: in every reachable tree, for every node and every frame, the       *)
(* subtree of the node holds at most one node with a frame equal to the    *)
(* frame.                                                                  *)

C24_OneMatchPerSubtree ==
  \A p \in PathsOf(rootStackFrameNode) :
    \A frame \in StackFrames :
      Cardinality(Matches(NodeAt(rootStackFrameNode, p), frame)) <= 1

(* C24, amended: in every reachable tree, for every node and every frame,  *)
(* at most one of the children of the node has a frame equal to the frame; *)
(* the subtree of the node may hold more than one such node.               *)

C24_OneMatchAmongChildren ==
  \A p \in PathsOf(rootStackFrameNode) :
    \A frame \in StackFrames :
      LET children == NodeAt(rootStackFrameNode, p).children
      IN  Cardinality({i \in 1..Len(children) :
                         Equivalent(children[i].frame, frame)}) <= 1

\* the tree holds two nodes with equal frames, one of them a child of the
\* root and the other one not
C24_Witness ==
  \E frame \in StackFrames :
    \E q, r \in Matches(rootStackFrameNode, frame) :
      Len(q) = 1 /\ Len(r) > 1 /\ Head(q) # Head(r)

----------------------------------------------------------------------------
(* C25: the depth of the tree, the number of nodes below the root on its   *)
(* longest path, is never more than the length of the longest call stack   *)
(* merged since the last reset.                                            *)

RECURSIVE Depth(_)
RECURSIVE DepthOfList(_, _)
\* the largest depth among the children from child i on, each counted in
DepthOfList(children, i) ==
  IF i > Len(children) THEN 0
  ELSE LET d    == 1 + Depth(children[i])
           rest == DepthOfList(children, i + 1)
       IN  IF d > rest THEN d ELSE rest

Depth(node) == DepthOfList(node.children, 1)

C25_DepthBoundedByLongestCallStack ==
  Depth(rootStackFrameNode) <= longestCallStack

----------------------------------------------------------------------------
(* C26: a segment that starts with an asterisk and is the first of a line  *)
(* gets one space before it, so that no line autoWordWrap returns begins   *)
(* with an asterisk.                                                       *)

C26_NoLineBeginsWithAsterisk ==
  Wrapped =>
    \A i \in 1..Len(wrapped) : ~StartsWith(wrapped[i], Chars("*"))

----------------------------------------------------------------------------
(* C27: merging a call stack right after a merge of the same call stack    *)
(* changes nothing, whatever the tree the first of the two merges found.   *)

C27_RepeatedMergeChangesNothing ==
  [][ (/\ Merged
       /\ lastStep' = "merge"
       /\ Frames(callStack') = Frames(callStack)) =>
        /\ rootStackFrameNode' = rootStackFrameNode
        /\ nonOverlappingFrames' = <<>> ]_vars

\* a call stack of two frames or more has just been merged with nothing to
\* add, into a tree that holds a fork and more nodes than the call stack
\* has frames
C27_Witness ==
  /\ Merged
  /\ Len(callStack) >= 2
  /\ nonOverlappingFrames = <<>>
  /\ Size(rootStackFrameNode) - 1 > Len(callStack)
  /\ \E p \in PathsOf(rootStackFrameNode) :
       Len(NodeAt(rootStackFrameNode, p).children) >= 2

----------------------------------------------------------------------------
(* C28: a merge never matches a frame of the call stack against the        *)
(* synthetic root: after a merge each frame of the call stack, a frame     *)
(* named "Root" without source, line and column included, is the frame of  *)
(* a node other than the root.                                             *)

C28_NoFrameMatchesRoot ==
  Merged =>
    \A i \in 1..Len(callStack) :
      \E p \in PathsOf(rootStackFrameNode) :
        /\ p # <<>>
        /\ areFramesEqual(NodeAt(rootStackFrameNode, p).frame,
                          callStack[i].val)

----------------------------------------------------------------------------
(* C29: a reset, by the command or by the start of a debug session, does   *)
(* not end a record or generate command that waits at an await: the        *)
(* command stays where it is, and when its stackTrace response comes it    *)
(* merges the call stack into the tree as it is then, so that the tree     *)
(* holds again frames that were asked for before the reset.                *)

C29_ResetDoesNotCancel ==
  [][ /\ lastStep' \in ResetSteps => pc' = pc /\ cmd' = cmd
      /\ \A c \in Commands :
           (Ends(c) /\ lastStep' = "merge" /\ resetWhileSuspended[c]) =>
             /\ \A p \in PathsOf(rootStackFrameNode) :
                  /\ p \in PathsOf(rootStackFrameNode')
                  /\ NodeAt(rootStackFrameNode', p).frame =
                       NodeAt(rootStackFrameNode, p).frame
             /\ \A i \in 1..Len(callStack') :
                  \E p \in PathsOf(rootStackFrameNode') :
                    areFramesEqual(NodeAt(rootStackFrameNode', p).frame,
                                   callStack'[i].val) ]_vars

\* every command was at an await when the tree was last reset and has ended
\* since, the last of them by a merge, and the tree holds a node
C29_Witness ==
  /\ lastStep = "merge"
  /\ callStack # <<>>
  /\ rootStackFrameNode.children # <<>>
  /\ \A c \in Commands : pc[c] = "idle" /\ resetWhileSuspended[c]

----------------------------------------------------------------------------
(* C30: in the diagram of any tree the split markers are well nested:      *)
(* there are as many split as end split lines, one of each for each node   *)
(* with more than one child; no beginning of the diagram holds more end    *)
(* split than split lines; each split again line stands between a split    *)
(* and the end split that closes it; and there are as many split again     *)
(* lines as the nodes with N > 1 children have children beyond their       *)
(* first, N - 1 for each.                                                  *)

\* how many of the first k lines are the line marker
CountUpTo(lines, k, marker) ==
  Cardinality({i \in 1..k : lines[i] = marker})

\* the splits that are open after the first k lines
OpenSplits(lines, k) ==
  CountUpTo(lines, k, Chars("split")) - CountUpTo(lines, k, Chars("end split"))

\* the paths of the nodes of the tree that have more than one child
ForkPaths(root) ==
  {p \in PathsOf(root) : Len(NodeAt(root, p).children) > 1}

\* the children that the nodes with more than one child have beyond their
\* first, each as the path of its parent and its index
FurtherChildren(root) ==
  UNION {{<<p, i>> : i \in 2..Len(NodeAt(root, p).children)} :
           p \in ForkPaths(root)}

====
